---- MODULE Spec2Model ----
(***************************************************************************)
(* Model of three files of the IBM Cloud Terraform provider:               *)
(*   - the ibm_sm_arbitrary_secret resource (Create / wait / Read /        *)
(*     Update / Delete against the Secrets Manager REST client),           *)
(*   - the ibm_sm_service_credentials_secret data source (schema and       *)
(*     Read),                                                              *)
(*   - the acceptance test of the ibm_schematics_agent data source.        *)
(* Strings that the code splits or formats (resource IDs) are sequences of *)
(* one-character strings, so that strings.Split and fmt.Sprintf are        *)
(* computed, not assumed.                                                  *)
(***************************************************************************)
EXTENDS Integers, Sequences, FiniteSets, TLC

\* ------------------------------------------------------------------ bounds
\* longest resource ID handed to the importer
MaxIdLen == 4
\* largest create timeout, counted in poll intervals
MaxTimeout == 3

\* ------------------------------------------------------------- strings
Slash == "/"

\* characters of an imported resource ID
IdAlphabet == {"a", Slash}

RECURSIVE StringsUpTo(_)
StringsUpTo(n) ==
    IF n = 0 THEN {<<>>}
    ELSE LET shorter == StringsUpTo(n - 1)
         IN  shorter \cup {Append(s, c) : s \in {t \in shorter : Len(t) = n - 1}, c \in IdAlphabet}

\* index of the first "/" of s, 0 when there is none
FirstSlash(s) ==
    IF \E i \in 1..Len(s) : s[i] = Slash
    THEN CHOOSE i \in 1..Len(s) : s[i] = Slash /\ \A j \in 1..(i - 1) : s[j] # Slash
    ELSE 0

\* strings.Split(s, "/"): the segments between the separators, empty ones kept
RECURSIVE Split(_)
Split(s) ==
    LET i == FirstSlash(s)
    IN  IF i = 0 THEN <<s>>
        ELSE <<SubSeq(s, 1, i - 1)>> \o Split(SubSeq(s, i + 1, Len(s)))

\* fmt.Sprintf("%s/%s/%s", region, instanceId, secretId)
SprintfId(region, instanceId, secretId) ==
    region \o <<Slash>> \o instanceId \o <<Slash>> \o secretId

EmptyId == <<>>

\* ------------------------------------------------------ remote service
\* state_description values of a secret (schema "state" description)
States == {"pre_activation", "active", "suspended", "deactivated", "destroyed"}

\* NIST SP 800-57 state number of a state description
StateNumber(desc) ==
    CASE desc = "pre_activation" -> 0
      [] desc = "active" -> 1
      [] desc = "suspended" -> 2
      [] desc = "deactivated" -> 3
      [] desc = "destroyed" -> 5

NoSecret == [nil |-> TRUE]

\* a secret as the REST client returns it; labels and custom metadata may be nil
Secret(secretId, desc, type, hasLabels, hasMeta) ==
    [nil |-> FALSE, ID |-> secretId, StateDescription |-> desc, SecretType |-> type,
     Labels |-> hasLabels, CustomMetadata |-> hasMeta]

\* outcomes of a request that has no result object: err is "none" or the kind of
\* failure ("404": an error with a 404 response, "other": an error with another
\* response, "noresponse": an error with a nil response)
ErrKinds == {"404", "other", "noresponse"}

\* what GetSecret can answer to a status poll of the secret just created: the
\* secret in any state, or an error together with a nil result
PollAnswers(secretId) ==
    {[err |-> "none", obj |-> Secret(secretId, st, "arbitrary", FALSE, FALSE)] : st \in States}
        \cup {[err |-> e, obj |-> NoSecret] : e \in ErrKinds}

\* what GetSecretWithContext can answer to Read; a secret of another type can
\* only be behind an ID that was imported
ReadAnswers(secretId, imported) ==
    {[err |-> "none", obj |-> Secret(secretId, st, ty, l, m)] :
        st \in States,
        ty \in (IF imported THEN {"arbitrary", "other"} ELSE {"arbitrary"}),
        l \in BOOLEAN, m \in BOOLEAN}
        \cup {[err |-> e, obj |-> NoSecret] : e \in ErrKinds}

\* configured region, instance and the IDs CreateSecret can assign
Regions == {<<"r">>}
InstanceIds == {<<"i">>}
SecretIds == {<<"s">>, <<"t">>}

\* ------------------------------------------------------------ the state
VARIABLES
    op,        \* the lifecycle function the framework is running, or "idle"
    pc,        \* position inside it
    id,        \* d.Id()
    attrs,     \* attributes written with d.Set
    diags,     \* diagnostics returned by the function ("none": nil)
    log,       \* requests issued and functions entered in this invocation
    polls,     \* state descriptions observed by the polls of this invocation
    inflight,  \* requests of this invocation that have not returned
    lastErr,   \* the error of the last answer received in this invocation
    elapsed,   \* poll intervals elapsed since the wait began
    timeout    \* d.Timeout(schema.TimeoutCreate), in poll intervals

rvars == <<op, pc, id, attrs, diags, log, polls, inflight, lastErr, elapsed, timeout>>

VARIABLES
    dsPc,      \* position of the data source's validation and read
    dsConfig,  \* the attributes the configuration sets
    dsId,      \* the data source's d.Id()
    dsAttrs,   \* attributes the data source's Read has set
    dsDiags    \* what validation or Read returned

dvars == <<dsPc, dsConfig, dsId, dsAttrs, dsDiags>>

VARIABLES
    tPc,       \* position of the acceptance test step
    tCase,     \* which test function runs
    tName,     \* agentDataName
    agents,    \* agents the remote schematics service holds, by id
    rsAttrs,   \* state of resource ibm_schematics_agent.schematics_agent_instance
    dataAttrs, \* state of data.ibm_schematics_agent.schematics_agent_instance
    tFailed    \* the checks of the step that failed

avars == <<tPc, tCase, tName, agents, rsAttrs, dataAttrs, tFailed>>

vars == <<rvars, dvars, avars>>

\* ------------------------------------------ ibm_sm_arbitrary_secret
\* attributes of the resource that Create and Read write
AttrNames ==
    {"secret_id", "instance_id", "region", "created_by", "created_at", "crn",
     "downloaded", "locks_total", "name", "secret_group_id", "secret_type", "state",
     "state_description", "updated_at", "versions_total", "custom_metadata",
     "description", "labels", "expiration_date", "payload"}

IdAttrs == {"secret_id", "instance_id", "region"}

Unset(k) == IF k \in IdAttrs THEN <<>> ELSE IF k = "state" THEN -1 ELSE ""

NoAttrs == [k \in AttrNames |-> Unset(k)]

\* the d.Set calls of Read, in the order of the code; custom_metadata and labels
\* are written only when the secret has them
ReadSets(old, region, instanceId, secretId, secret) ==
    [k \in AttrNames |->
        CASE k = "secret_id" -> secretId
          [] k = "instance_id" -> instanceId
          [] k = "region" -> region
          [] k = "secret_type" -> secret.SecretType
          [] k = "state" -> StateNumber(secret.StateDescription)
          [] k = "state_description" -> secret.StateDescription
          [] k = "custom_metadata" -> IF secret.CustomMetadata THEN "set" ELSE old[k]
          [] k = "labels" -> IF secret.Labels THEN "set" ELSE old[k]
          [] OTHER -> "set"]

Idle ==
    /\ op = "idle"
    /\ pc = "idle"

\* diag.Diagnostics: nil, or one error with its summary and its cause
NoDiags == <<>>

Diag(summary, cause) == <<[summary |-> summary, cause |-> cause]>>

\* the function returns d (diag.Diagnostics)
Return(d) ==
    /\ pc' = "done"
    /\ diags' = d

\* a request leaves: it is logged and in flight until its answer arrives
Issue(request) ==
    /\ log' = Append(log, request)
    /\ inflight' = inflight + 1

\* an answer arrives: the request is no longer in flight, its error is kept
Answered(err) ==
    /\ inflight' = inflight - 1
    /\ lastErr' = err

\* a check of err that never sees an error
ErrIgnored(err) == FALSE

\* if err != nil, after a REST call
ErrNotNil(err) == err # "none"

\* a Read that does not recognise a 404
Is404Never(err) == FALSE

\* response != nil && response.StatusCode == 404, in Read
Is404(err) == err = "404"

\* what a REST call can return as its error
Errs == {"none"} \cup ErrKinds

InitResource ==
    /\ op = "idle"
    /\ pc = "idle"
    /\ id = EmptyId
    /\ attrs = NoAttrs
    /\ diags = NoDiags
    /\ log = <<>>
    /\ polls = <<>>
    /\ inflight = 0
    /\ lastErr = "none"
    /\ elapsed = 0
    /\ timeout = 0

\* resourceIbmSmArbitrarySecretCreate up to the CreateSecret request. clientOk:
\* the session yields a client; protoOk: the prototype is built (expiration_date
\* parses); region, instanceId: the configured ones; t: the create timeout
resourceIbmSmArbitrarySecretCreate(clientOk, protoOk, region, instanceId, t) ==
    /\ Idle
    /\ id = EmptyId
    /\ op' = "Create"
    /\ timeout' = t
    /\ attrs' = [attrs EXCEPT !["region"] = region, !["instance_id"] = instanceId]
    /\ IF ~clientOk
       THEN Return(Diag("client error", "")) /\ UNCHANGED <<log, inflight>>
       ELSE IF ~protoOk
       THEN Return(Diag("Failed to get expiration_date", "")) /\ UNCHANGED <<log, inflight>>
       ELSE pc' = "CreateSecret" /\ Issue("CreateSecret") /\ UNCHANGED diags
    /\ UNCHANGED <<id, polls, lastErr, elapsed, dvars, avars>>

\* a Create that sends the request again when it has failed
CreateSecretRetried ==
    /\ pc' = "CreateSecret"
    /\ log' = Append(log, "CreateSecret")
    /\ UNCHANGED <<id, attrs, diags>>

\* Create when CreateSecretWithContext has failed: the error is returned
CreateSecretFailed ==
    /\ Return(Diag("CreateSecretWithContext failed", ""))
    /\ UNCHANGED <<id, attrs, log>>

\* CreateSecretWithContext answers: an error, or the secret with its new ID; on
\* success the ID and secret_id are set and the wait begins, reading the secret's
\* ID back as id[2] of the split resource ID
CreateSecretWithContextReturns(err, secretId) ==
    /\ op = "Create"
    /\ pc = "CreateSecret"
    /\ Answered(err)
    /\ IF ErrNotNil(err)
       THEN CreateSecretFailed
       ELSE /\ id' = SprintfId(attrs["region"], attrs["instance_id"], secretId)
            /\ attrs' = [attrs EXCEPT !["secret_id"] = secretId]
            /\ log' = Append(log, "SetId")
            /\ pc' = IF Len(Split(id')) < 3 THEN "panic" ELSE "wait"
            /\ UNCHANGED diags
    /\ UNCHANGED <<op, polls, elapsed, timeout, dvars, avars>>

\* a misspelt pending state, and no fail state
PendingTypo == {"pre-activation"}
failStatesNone == {}

\* no pending state listed, and a pending state listed as a target
PendingNone == {}
TargetLax == {"active", "pre_activation"}

\* StateChangeConf of waitForIbmSmArbitrarySecretCreate
Pending == {"pre_activation"}
Target == {"active"}
failStates == {"destroyed"}

\* the Refresh closure applied to GetSecret's answer: the type assertion on the
\* result comes first and panics on a nil result; then the error branches; then
\* the fail states
Refresh(answer) ==
    IF answer.obj.nil
    THEN [panic |-> TRUE, state |-> "", err |-> "none"]
    ELSE IF ErrNotNil(answer.err)
    THEN [panic |-> FALSE, state |-> "",
          err |-> IF answer.err = "404" THEN "does not exist anymore" ELSE "sdk error"]
    ELSE IF answer.obj.StateDescription \in failStates
    THEN [panic |-> FALSE, state |-> answer.obj.StateDescription, err |-> "failed"]
    ELSE [panic |-> FALSE, state |-> answer.obj.StateDescription, err |-> "none"]

\* what WaitForState does with one refresh result: "error" (the refresh
\* error is returned), "done" (a target state), "continue" (a pending state, or
\* any state when no pending state is listed) or "unexpected" (any other state)
WaitForStateStep(r) ==
    IF r.err # "none" THEN "error"
    ELSE IF r.state \in Target THEN "done"
    ELSE IF r.state \in Pending \/ Pending = {} THEN "continue"
    ELSE "unexpected"

\* the wait has run out of time
TimedOut == elapsed >= timeout

\* what a poll observed: the state description, or "error" when the request failed
Observed(answer) == IF answer.err # "none" THEN "error" ELSE answer.obj.StateDescription

\* the wait issues one status poll; none is issued once the timeout has elapsed
RefreshCall ==
    /\ op = "Create"
    /\ pc = "wait"
    /\ ~TimedOut
    /\ pc' = "GetSecretPoll"
    /\ Issue("Poll")
    /\ UNCHANGED <<op, id, attrs, diags, polls, lastErr, elapsed, timeout, dvars, avars>>

\* the poll's answer arrives and WaitForState acts on it; when the wait ends
\* with an error Create returns it, when it ends in a target state Create goes
\* on to Read
RefreshReturns ==
    /\ op = "Create"
    /\ pc = "GetSecretPoll"
    /\ \E answer \in PollAnswers(Split(id)[3]) :
       LET r == Refresh(answer)
           w == WaitForStateStep(r)
       IN  /\ Answered(answer.err)
           /\ polls' = Append(polls, Observed(answer))
           /\ IF r.panic
              THEN pc' = "panic" /\ UNCHANGED diags
              ELSE CASE w = "error" -> Return(Diag("Error waiting for resource", r.err))
                     [] w = "unexpected" ->
                            Return(Diag("Error waiting for resource", "unexpected state"))
                     [] w = "done" -> pc' = "Read" /\ UNCHANGED diags
                     [] w = "continue" -> pc' = "sleep" /\ UNCHANGED diags
    /\ UNCHANGED <<op, id, attrs, log, elapsed, timeout, dvars, avars>>

\* the interval between two polls passes
WaitSleep ==
    /\ op = "Create"
    /\ pc = "sleep"
    /\ ~TimedOut
    /\ elapsed' = elapsed + 1
    /\ pc' = "wait"
    /\ UNCHANGED <<op, id, attrs, diags, log, polls, inflight, lastErr, timeout, dvars, avars>>

\* time passes while a poll is unanswered
WaitBlocked ==
    /\ op = "Create"
    /\ pc = "GetSecretPoll"
    /\ ~TimedOut
    /\ elapsed' = elapsed + 1
    /\ UNCHANGED <<op, pc, id, attrs, diags, log, polls, inflight, lastErr, timeout, dvars, avars>>

\* a wait without timeout
WaitTimeoutNever == FALSE /\ UNCHANGED vars

\* the timeout fires: WaitForState returns a timeout error, answered poll or not
WaitTimeout ==
    /\ op = "Create"
    /\ pc \in {"wait", "sleep", "GetSecretPoll"}
    /\ TimedOut
    /\ Return(Diag("Error waiting for resource", "timeout"))
    /\ UNCHANGED <<op, id, attrs, log, polls, inflight, lastErr, elapsed, timeout, dvars, avars>>

\* the framework imports a resource: the ID is the user's string, then Read runs
ImportState(s) ==
    /\ Idle
    /\ id = EmptyId
    /\ id' = s
    /\ op' = "Import"
    /\ pc' = "Read"
    /\ UNCHANGED <<attrs, diags, log, polls, inflight, lastErr, elapsed, timeout, dvars, avars>>

\* the framework refreshes a resource it tracks
RefreshState ==
    /\ Idle
    /\ id # EmptyId
    /\ op' = "Read"
    /\ pc' = "Read"
    /\ UNCHANGED <<id, attrs, diags, log, polls, inflight, lastErr, elapsed, timeout, dvars, avars>>

\* resourceIbmSmArbitrarySecretRead is entered, by the framework or from Create
\* and Update (with the session they hold), and takes its client
ReadEnter(clientOk) ==
    /\ pc = "Read"
    /\ op \in {"Create", "Update"} => clientOk
    /\ log' = Append(log, "Read")
    /\ IF ~clientOk
       THEN Return(Diag("client error", ""))
       ELSE pc' = "ReadSplit" /\ UNCHANGED diags
    /\ UNCHANGED <<op, id, attrs, polls, inflight, lastErr, elapsed, timeout, dvars, avars>>

\* a check that only rejects IDs with too few segments
WrongFormatLax(segments) == Len(segments) < 3

\* len(id) != 3 in Read, id the split resource ID
WrongFormat(segments) == Len(segments) # 3

\* resourceIbmSmArbitrarySecretRead splits the ID, returns an error unless it
\* has three segments, and else requests the secret
resourceIbmSmArbitrarySecretRead ==
    /\ pc = "ReadSplit"
    /\ IF WrongFormat(Split(id))
       THEN Return(Diag("Wrong format of resource ID", "")) /\ UNCHANGED <<log, inflight>>
       ELSE pc' = "GetSecret" /\ Issue("GetSecret") /\ UNCHANGED diags
    /\ UNCHANGED <<op, id, attrs, polls, lastErr, elapsed, timeout, dvars, avars>>

\* GetSecretWithContext answers Read: a 404 clears the ID, another error is
\* returned, a secret is type-asserted and copied into the attributes
GetSecretWithContextReturns ==
    /\ pc = "GetSecret"
    /\ \E answer \in ReadAnswers(Split(id)[3], op = "Import") :
       LET seg == Split(id)
       IN  /\ Answered(answer.err)
           /\ IF ErrNotNil(answer.err)
              THEN IF Is404(answer.err)
                   THEN id' = EmptyId /\ Return(NoDiags) /\ UNCHANGED attrs
                   ELSE /\ Return(Diag("GetSecretWithContext failed", ""))
                        /\ UNCHANGED <<id, attrs>>
              ELSE IF answer.obj.SecretType # "arbitrary"
              THEN pc' = "panic" /\ UNCHANGED <<id, attrs, diags>>
              ELSE /\ attrs' = ReadSets(attrs, seg[1], seg[2], seg[3], answer.obj)
                   /\ Return(NoDiags)
                   /\ UNCHANGED id
    /\ UNCHANGED <<op, log, polls, elapsed, timeout, dvars, avars>>

\* attributes whose change Update sends
Patchable == {"name", "description", "labels", "custom_metadata"}

\* resourceIbmSmArbitrarySecretUpdate up to its request; changed: the attributes
\* for which d.HasChange holds. Without a change it goes straight to Read
resourceIbmSmArbitrarySecretUpdate(clientOk, changed) ==
    /\ Idle
    /\ id # EmptyId
    /\ op' = "Update"
    /\ IF ~clientOk
       THEN Return(Diag("client error", "")) /\ UNCHANGED <<log, inflight>>
       ELSE IF Len(Split(id)) < 3
       THEN pc' = "panic" /\ UNCHANGED <<diags, log, inflight>>
       ELSE IF changed # {}
       THEN pc' = "UpdateSecretMetadata" /\ Issue("UpdateSecretMetadata") /\ UNCHANGED diags
       ELSE pc' = "Read" /\ UNCHANGED <<diags, log, inflight>>
    /\ UNCHANGED <<id, attrs, polls, lastErr, elapsed, timeout, dvars, avars>>

\* UpdateSecretMetadataWithContext answers: an error is returned, else Read
UpdateSecretMetadataWithContextReturns(err) ==
    /\ op = "Update"
    /\ pc = "UpdateSecretMetadata"
    /\ Answered(err)
    /\ IF ErrNotNil(err)
       THEN Return(Diag("UpdateSecretMetadataWithContext failed", ""))
       ELSE pc' = "Read" /\ UNCHANGED diags
    /\ UNCHANGED <<op, id, attrs, log, polls, elapsed, timeout, dvars, avars>>

\* resourceIbmSmArbitrarySecretDelete up to its request
resourceIbmSmArbitrarySecretDelete(clientOk) ==
    /\ Idle
    /\ id # EmptyId
    /\ op' = "Delete"
    /\ IF ~clientOk
       THEN Return(Diag("client error", "")) /\ UNCHANGED <<log, inflight>>
       ELSE IF Len(Split(id)) < 3
       THEN pc' = "panic" /\ UNCHANGED <<diags, log, inflight>>
       ELSE pc' = "DeleteSecret" /\ Issue("DeleteSecret") /\ UNCHANGED diags
    /\ UNCHANGED <<id, attrs, polls, lastErr, elapsed, timeout, dvars, avars>>

\* DeleteSecretWithContext answers: an error is returned, else the ID is cleared
DeleteSecretWithContextReturns(err) ==
    /\ op = "Delete"
    /\ pc = "DeleteSecret"
    /\ Answered(err)
    /\ IF ErrNotNil(err)
       THEN Return(Diag("DeleteSecretWithContext failed", "")) /\ UNCHANGED id
       ELSE id' = EmptyId /\ Return(NoDiags)
    /\ UNCHANGED <<op, attrs, log, polls, elapsed, timeout, dvars, avars>>

\* the framework takes the function's result. A resource without ID, a failed
\* import and a crashed plugin leave nothing in the state
Finish ==
    /\ pc \in {"done", "panic"}
    /\ LET dropped == \/ id = EmptyId
                      \/ pc = "panic"
                      \/ op = "Import" /\ diags # NoDiags
       IN  /\ id' = IF dropped THEN EmptyId ELSE id
           /\ attrs' = IF dropped THEN NoAttrs ELSE attrs
    /\ op' = "idle"
    /\ pc' = "idle"
    /\ diags' = NoDiags
    /\ log' = <<>>
    /\ polls' = <<>>
    /\ inflight' = 0
    /\ lastErr' = "none"
    /\ elapsed' = 0
    /\ timeout' = 0
    /\ UNCHANGED <<dvars, avars>>

\* ------------------------------ data source ibm_sm_service_credentials_secret
\* the attributes a configuration may set, with the constraints of the schema
DsConfigKeys == {"secret_id", "name", "secret_group_name"}

SecretIdExactlyOneOf == {"secret_id", "name"}
NameExactlyOneOf == {"secret_id", "name"}
NameRequiredWith == {"secret_group_name"}
\* secret_group_name without its RequiredWith
SecretGroupNameUnconstrained == {}

SecretGroupNameRequiredWith == {"name"}

DataSourceIbmSmServiceCredentialsSecret ==
    [secret_id |-> [ExactlyOneOf |-> SecretIdExactlyOneOf, RequiredWith |-> {}],
     name |-> [ExactlyOneOf |-> NameExactlyOneOf, RequiredWith |-> NameRequiredWith],
     secret_group_name |-> [ExactlyOneOf |-> {}, RequiredWith |-> SecretGroupNameRequiredWith]]

NotSet == <<>>

\* the keys the configuration sets
SetKeys(config) == {k \in DsConfigKeys : config[k] # NotSet}

\* ExactlyOneOf of attribute k: of the listed keys and k itself exactly one is set
ExactlyOneOfOk(schema, k, config) ==
    \/ schema[k].ExactlyOneOf = {}
    \/ Cardinality((schema[k].ExactlyOneOf \cup {k}) \cap SetKeys(config)) = 1

\* RequiredWith of attribute k, looked at only when k is set: the listed keys
\* and k itself are all set
RequiredWithOk(schema, k, config) ==
    \/ k \notin SetKeys(config)
    \/ schema[k].RequiredWith = {}
    \/ (schema[k].RequiredWith \cup {k}) \subseteq SetKeys(config)

\* the framework accepts the configuration
SchemaAccepts(schema, config) ==
    \A k \in DsConfigKeys : ExactlyOneOfOk(schema, k, config) /\ RequiredWithOk(schema, k, config)

\* attributes of the data source's schema
DsAttrNames ==
    {"secret_id", "created_by", "created_at", "crn", "custom_metadata", "description",
     "downloaded", "labels", "locks_total", "name", "secret_group_id",
     "secret_group_name", "secret_type", "state", "state_description", "updated_at",
     "versions_total", "version_custom_metadata", "ttl", "rotation",
     "next_rotation_date", "credentials", "source_service", "region"}

Nil == "nil"

\* dataSourceIbmSmServiceCredentialsSecretRotationPolicyToMap: the non-nil fields
dataSourceIbmSmServiceCredentialsSecretRotationPolicyToMap(model) ==
    [k \in {f \in {"auto_rotate", "interval", "unit"} : model[f] # Nil} |-> model[k]]

\* rotation policies the service can return
RotationPolicies ==
    [nil : {FALSE}, auto_rotate : {Nil, "true"}, interval : {Nil, "1"}, unit : {Nil, "day"}]

NoRotation == [nil |-> TRUE, auto_rotate |-> Nil, interval |-> Nil, unit |-> Nil]

\* a service credentials secret as the REST client returns it; it always
\* carries credentials and a source service
ServiceCredentialsSecrets(secretId) ==
    [ID : {secretId}, CustomMetadata : BOOLEAN, Labels : BOOLEAN,
     Rotation : {NoRotation} \cup RotationPolicies,
     Credentials : {"credentials"}, SourceService : {"source_service"}]

\* the configuration as d holds it before Read
DsConfigured(config) ==
    [k \in DsAttrNames |->
        IF k = "rotation" THEN <<>>
        ELSE IF k \in DsConfigKeys /\ config[k] # NotSet THEN "config" ELSE ""]

\* the d.Set calls of dataSourceIbmSmServiceCredentialsSecretRead
DsReadSets(old, secret) ==
    [k \in DsAttrNames |->
        CASE k \in {"region", "created_by", "created_at", "crn", "description",
                    "downloaded", "locks_total", "name", "secret_group_id",
                    "secret_type", "state", "state_description", "updated_at",
                    "versions_total", "ttl", "next_rotation_date"} -> "set"
          [] k = "custom_metadata" -> IF secret.CustomMetadata THEN "set" ELSE old[k]
          [] k = "labels" -> IF secret.Labels THEN "set" ELSE old[k]
          [] k = "rotation" ->
                IF ~secret.Rotation.nil
                THEN <<dataSourceIbmSmServiceCredentialsSecretRotationPolicyToMap(secret.Rotation)>>
                ELSE <<>>
          [] OTHER -> old[k]]

DsOff ==
    /\ dsPc = "off"
    /\ dsConfig = [k \in DsConfigKeys |-> NotSet]
    /\ dsId = EmptyId
    /\ dsAttrs = [k \in DsAttrNames |-> IF k = "rotation" THEN <<>> ELSE ""]
    /\ dsDiags = NoDiags

\* a configuration of the data source: each of the three attributes set or not
InitDataSource ==
    /\ dsPc = "config"
    /\ dsConfig \in [secret_id : {NotSet} \cup SecretIds,
                     name : {NotSet, <<"n">>},
                     secret_group_name : {NotSet, <<"g">>}]
    /\ dsId = EmptyId
    /\ dsAttrs = DsConfigured(dsConfig)
    /\ dsDiags = NoDiags

\* the framework validates the configuration against the schema
DsValidate ==
    /\ dsPc = "config"
    /\ IF SchemaAccepts(DataSourceIbmSmServiceCredentialsSecret, dsConfig)
       THEN dsPc' = "valid" /\ UNCHANGED dsDiags
       ELSE dsPc' = "rejected" /\ dsDiags' = Diag("invalid configuration", "")
    /\ UNCHANGED <<dsConfig, dsId, dsAttrs, rvars, avars>>

\* dataSourceIbmSmServiceCredentialsSecretRead calls getSecretByIdOrByName
DsLookup ==
    /\ dsPc = "valid"
    /\ dsPc' = "getSecretByIdOrByName"
    /\ UNCHANGED <<dsConfig, dsId, dsAttrs, dsDiags, rvars, avars>>

\* getSecretByIdOrByName returns an error, or the secret with its region and
\* instance, and Read sets the ID and the attributes
dataSourceIbmSmServiceCredentialsSecretRead(ok, region, instanceId, secret) ==
    /\ dsPc = "getSecretByIdOrByName"
    /\ dsPc' = "done"
    /\ IF ~ok
       THEN dsDiags' = Diag("getSecretByIdOrByName failed", "") /\ UNCHANGED <<dsId, dsAttrs>>
       ELSE /\ dsId' = SprintfId(region, instanceId, secret.ID)
            /\ dsAttrs' = DsReadSets(dsAttrs, secret)
            /\ dsDiags' = NoDiags
    /\ UNCHANGED <<dsConfig, rvars, avars>>

\* --------------------------- acceptance test of data source ibm_schematics_agent
\* values of fmt.Sprintf("tf_name_%d", acctest.RandIntRange(10, 100))
AgentDataNames == {"tf_name_10", "tf_name_11", "tf_name_50", "tf_name_99"}

agentDataVersion == "1.0.0-beta2"
agentDataSchematicsLocation == "us-south"
agentDataAgentLocation == "eu-de"

\* ids the schematics service can assign to a new agent
AgentIds == {"agent-1", "agent-2", "agent-3", "agent-4"}

\* a basic configuration that leaves the name out
ConfigBasicWithoutName(name, version, schematicsLocation, agentLocation) ==
    [name |-> "", resource_group |-> "Default", version |-> version,
     schematics_location |-> schematicsLocation, agent_location |-> agentLocation,
     agent_infrastructure |-> <<[infra_type |-> "ibm_kubernetes", cluster_id |-> "cluster_id"]>>,
     description |-> "", agent_metadata |-> <<>>, agent_inputs |-> <<>>]

\* the resource block of testAccCheckIbmSchematicsAgentDataSourceConfigBasic
testAccCheckIbmSchematicsAgentDataSourceConfigBasic(name, version, schematicsLocation, agentLocation) ==
    [name |-> name, resource_group |-> "Default", version |-> version,
     schematics_location |-> schematicsLocation, agent_location |-> agentLocation,
     agent_infrastructure |-> <<[infra_type |-> "ibm_kubernetes", cluster_id |-> "cluster_id"]>>,
     description |-> "", agent_metadata |-> <<>>, agent_inputs |-> <<>>]

\* the resource block of testAccCheckIbmSchematicsAgentDataSourceConfig
testAccCheckIbmSchematicsAgentDataSourceConfig(name, version, schematicsLocation, agentLocation, description) ==
    [name |-> name, resource_group |-> "Default", version |-> version,
     schematics_location |-> schematicsLocation, agent_location |-> agentLocation,
     agent_infrastructure |-> <<[infra_type |-> "ibm_kubernetes", cluster_id |-> "cluster_id"]>>,
     description |-> description,
     agent_metadata |-> <<[name |-> "purpose"]>>,
     agent_inputs |-> <<[name |-> "name", value |-> "value", link |-> "link"]>>]

\* the configuration of the running test function
TestConfig ==
    IF tCase = "Basic"
    THEN testAccCheckIbmSchematicsAgentDataSourceConfigBasic(
             tName, agentDataVersion, agentDataSchematicsLocation, agentDataAgentLocation)
    ELSE testAccCheckIbmSchematicsAgentDataSourceConfig(
             tName, agentDataVersion, agentDataSchematicsLocation, agentDataAgentLocation,
             "tf_description")

\* keys of the flat state the checks look at
DataKeys ==
    {"id", "agent_id", "name", "resource_group", "version", "schematics_location",
     "agent_location", "agent_infrastructure.#", "description", "agent_metadata.#",
     "agent_metadata.0.name", "agent_inputs.#", "agent_inputs.0.name"}

NoData == [k \in DataKeys |-> ""]

ListCount(list) == IF Len(list) = 0 THEN "0" ELSE "1"

\* the data source's Read flattens the agent the service returns
FlattenAgent(agentId, agent) ==
    [k \in DataKeys |->
        CASE k = "id" -> agentId
          [] k = "agent_id" -> agentId
          [] k = "agent_infrastructure.#" -> ListCount(agent.agent_infrastructure)
          [] k = "agent_metadata.#" -> ListCount(agent.agent_metadata)
          [] k = "agent_metadata.0.name" ->
                IF Len(agent.agent_metadata) > 0 THEN agent.agent_metadata[1].name ELSE ""
          [] k = "agent_inputs.#" -> ListCount(agent.agent_inputs)
          [] k = "agent_inputs.0.name" ->
                IF Len(agent.agent_inputs) > 0 THEN agent.agent_inputs[1].name ELSE ""
          [] OTHER -> agent[k]]

\* resource.TestCheckResourceAttrSet: the key is in the state with a value
TestCheckResourceAttrSet(state, key) == state[key] # ""

\* resource.TestCheckResourceAttr: the key has the value
TestCheckResourceAttr(state, key, value) == state[key] = value

\* the attributes TestAccIbmSchematicsAgentDataSourceBasic checks to be set
BasicChecks ==
    {"id", "agent_id", "name", "resource_group", "version", "schematics_location",
     "agent_location", "agent_infrastructure.#"}

\* the checks of the running test function that fail on the data source's state
FailedChecks(state) ==
    IF tCase = "Basic"
    THEN {k \in BasicChecks : ~TestCheckResourceAttrSet(state, k)}
    ELSE {k \in BasicChecks \cup {"description", "agent_metadata.#", "agent_inputs.#"} :
              ~TestCheckResourceAttrSet(state, k)}
         \cup {k \in {"agent_metadata.0.name", "agent_inputs.0.name"} :
                  ~TestCheckResourceAttr(state, k, tName)}

TestOff ==
    /\ tPc = "off"
    /\ tCase = "Basic"
    /\ tName = ""
    /\ agents = <<>>
    /\ rsAttrs = NoData
    /\ dataAttrs = NoData
    /\ tFailed = {}

InitTest ==
    /\ tPc = "config"
    /\ tCase \in {"Basic", "AllArgs"}
    /\ tName \in AgentDataNames
    /\ agents = <<>>
    /\ rsAttrs = NoData
    /\ dataAttrs = NoData
    /\ tFailed = {}

\* the step applies the resource: the service creates the agent under a new id
TestApplyResource(ok, agentId) ==
    /\ tPc = "config"
    /\ IF ~ok
       THEN tPc' = "error" /\ UNCHANGED <<agents, rsAttrs>>
       ELSE /\ agents' = (agentId :> TestConfig)
            /\ rsAttrs' = FlattenAgent(agentId, TestConfig)
            /\ tPc' = "applied"
    /\ UNCHANGED <<tCase, tName, dataAttrs, tFailed, rvars, dvars>>

\* the step reads the data source with agent_id = the resource's id
TestReadDataSource(ok) ==
    /\ tPc = "applied"
    /\ LET agentId == rsAttrs["id"]
       IN  IF ok /\ agentId \in DOMAIN agents
           THEN dataAttrs' = FlattenAgent(agentId, agents[agentId]) /\ tPc' = "read"
           ELSE tPc' = "error" /\ UNCHANGED dataAttrs
    /\ UNCHANGED <<tCase, tName, agents, rsAttrs, tFailed, rvars, dvars>>

\* the step runs its checks on the data source's state
TestCheck ==
    /\ tPc = "read"
    /\ tFailed' = FailedChecks(dataAttrs)
    /\ tPc' = "checked"
    /\ UNCHANGED <<tCase, tName, agents, rsAttrs, dataAttrs, rvars, dvars>>

\* ------------------------------------------------------ specifications
Init ==
    /\ InitResource
    /\ DsOff
    /\ TestOff

Next ==
    \/ \E clientOk \in BOOLEAN, protoOk \in BOOLEAN, region \in Regions,
          instanceId \in InstanceIds, t \in 1..MaxTimeout :
            resourceIbmSmArbitrarySecretCreate(clientOk, protoOk, region, instanceId, t)
    \/ \E err \in Errs, secretId \in SecretIds : CreateSecretWithContextReturns(err, secretId)
    \/ RefreshCall
    \/ RefreshReturns
    \/ WaitSleep
    \/ WaitBlocked
    \/ WaitTimeout
    \/ \E s \in StringsUpTo(MaxIdLen) \ {EmptyId} : ImportState(s)
    \/ RefreshState
    \/ \E clientOk \in BOOLEAN : ReadEnter(clientOk)
    \/ resourceIbmSmArbitrarySecretRead
    \/ GetSecretWithContextReturns
    \/ \E clientOk \in BOOLEAN, changed \in SUBSET Patchable :
            resourceIbmSmArbitrarySecretUpdate(clientOk, changed)
    \/ \E err \in Errs : UpdateSecretMetadataWithContextReturns(err)
    \/ \E clientOk \in BOOLEAN : resourceIbmSmArbitrarySecretDelete(clientOk)
    \/ \E err \in Errs : DeleteSecretWithContextReturns(err)
    \/ Finish

Spec == Init /\ [][Next]_vars

\* the program runs on: a function that can take a step takes one
FairSpec == Spec /\ WF_vars(Next)

InitDs ==
    /\ InitResource
    /\ InitDataSource
    /\ TestOff

NextDs ==
    \/ DsValidate
    \/ DsLookup
    \/ \E ok \in BOOLEAN, region \in Regions, instanceId \in InstanceIds,
          sid \in (IF dsConfig["secret_id"] # NotSet THEN {dsConfig["secret_id"]} ELSE SecretIds) :
            \E secret \in ServiceCredentialsSecrets(sid) :
                dataSourceIbmSmServiceCredentialsSecretRead(ok, region, instanceId, secret)

SpecDataSource == InitDs /\ [][NextDs]_vars

InitAgentTest ==
    /\ InitResource
    /\ DsOff
    /\ InitTest

NextAgentTest ==
    \/ \E ok \in BOOLEAN, agentId \in AgentIds : TestApplyResource(ok, agentId)
    \/ \E ok \in BOOLEAN : TestReadDataSource(ok)
    \/ TestCheck

SpecAgentTest == InitAgentTest /\ [][NextAgentTest]_vars

\* ------------------------------------------------------------- claims
\* how often x occurs in the sequence
Occurrences(seq, x) == Cardinality({i \in 1..Len(seq) : seq[i] = x})

InLog(x) == Occurrences(log, x) > 0

\* the creation wait is running
Waiting == op = "Create" /\ pc \in {"wait", "sleep", "GetSecretPoll"}

\* the creation wait has returned success: Create has gone on to Read
WaitSucceeded == op = "Create" /\ (pc \in {"Read", "ReadSplit", "GetSecret"} \/ InLog("Read"))

\* C1: when GetSecret answers Read with an error and a 404 response, Read sets
\* the ID to the empty string and returns no diagnostics, and writes no attribute
ReadNotFoundClearsId ==
    [][(pc = "GetSecret" /\ pc' # "GetSecret" /\ lastErr' = "404")
        => (id' = EmptyId /\ pc' = "done" /\ diags' = NoDiags /\ attrs' = attrs)]_vars

\* a refresh of a tracked secret was answered 404 and has returned
ReadNotFoundWitness ==
    /\ op = "Read"
    /\ pc = "done"
    /\ lastErr = "404"
    /\ InLog("GetSecret")
    /\ id = EmptyId
    /\ diags = NoDiags
    /\ attrs["state_description"] # ""

\* C2: a poll that observes "destroyed" is the last poll of the wait: the wait
\* ends there with the "failed" error, Create returns an error diagnostic and
\* Read is not invoked
DestroyedEndsWait ==
    \A i \in 1..Len(polls) :
        polls[i] = "destroyed"
            => /\ i = Len(polls)
               /\ pc = "done"
               /\ diags = Diag("Error waiting for resource", "failed")
               /\ ~InLog("Read")
               /\ ~WaitSucceeded

\* the second poll of a wait observed "destroyed"
DestroyedWitness ==
    /\ op = "Create"
    /\ Len(polls) = 2
    /\ polls[1] = "pre_activation"
    /\ polls[2] = "destroyed"
    /\ pc = "done"

\* C3: the wait returns success only when its last poll observed "active", and
\* while all polls so far observed "pre_activation" and the timeout has not
\* elapsed the wait is still running: it has returned neither success nor error
WaitSuccessOnlyActive ==
    /\ WaitSucceeded => (polls # <<>> /\ polls[Len(polls)] = "active")
    /\ (/\ op = "Create"
        /\ InLog("SetId")
        /\ \A i \in 1..Len(polls) : polls[i] = "pre_activation"
        /\ ~TimedOut) => Waiting

\* the wait succeeded on its third poll, after two polls in "pre_activation"
WaitSuccessWitness ==
    /\ WaitSucceeded
    /\ polls = <<"pre_activation", "pre_activation", "active">>

\* C4: whatever statuses the polls report, the creation wait ends and Create
\* returns; the one other end is the panic of a poll answered with an error
\* instead of a status
WaitTerminates ==
    (op = "Create" /\ pc = "wait") ~> (pc = "done" \/ (pc = "panic" /\ lastErr # "none"))

\* a secret that stayed in "pre_activation" until the timeout fired
WaitTimeoutWitness ==
    /\ op = "Create"
    /\ pc = "done"
    /\ diags = Diag("Error waiting for resource", "timeout")
    /\ Len(polls) >= 2
    /\ \A i \in 1..Len(polls) : polls[i] = "pre_activation"

\* positions at which Create, Read, Update and Delete await their REST call
RestCalls == {"CreateSecret", "GetSecret", "UpdateSecretMetadata", "DeleteSecret"}

\* C5: when the REST call of Create, Read (but for a 404), Update or Delete
\* returns an error, the function returns an error diagnostic at once, without
\* another request; a function that has returned issues none either
RestErrorReturns ==
    [][/\ (/\ pc \in RestCalls
           /\ pc' # pc
           /\ lastErr' # "none"
           /\ ~(pc = "GetSecret" /\ lastErr' = "404"))
            => (pc' = "done" /\ diags' # NoDiags /\ log' = log /\ inflight' = 0)
       /\ pc = "done" => (pc' = "idle" /\ log' = <<>>)]_vars

\* an Update whose UpdateSecretMetadata failed has returned its error
RestErrorWitness ==
    /\ op = "Update"
    /\ pc = "done"
    /\ lastErr # "none"
    /\ diags = Diag("UpdateSecretMetadataWithContext failed", "")
    /\ log = <<"UpdateSecretMetadata">>

\* C6: in one invocation CreateSecret, UpdateSecretMetadata, DeleteSecret and
\* Read's GetSecret are each issued at most once (only the status poll repeats),
\* and at most one request is in flight
NoRetry ==
    /\ inflight \in {0, 1}
    /\ \A r \in RestCalls : Occurrences(log, r) <= 1

\* a Create that polled three times and then read the secret
NoRetryWitness ==
    /\ op = "Create"
    /\ Occurrences(log, "Poll") = 3
    /\ Occurrences(log, "CreateSecret") = 1
    /\ Occurrences(log, "GetSecret") = 1
    /\ inflight = 1

\* C7: Read, holding its client, returns the "Wrong format of resource ID"
\* error for an ID that does not split into three segments, issuing no request
\* and leaving the ID and the attributes alone; it requests only three-segment IDs
WrongFormatRejected ==
    [][/\ (pc = "ReadSplit" /\ pc' # pc /\ Len(Split(id)) # 3)
            => /\ pc' = "done"
               /\ diags' = Diag("Wrong format of resource ID", "")
               /\ log' = log
               /\ inflight' = inflight
               /\ id' = id
               /\ attrs' = attrs
       /\ (pc' = "GetSecret" /\ pc # pc') => Len(Split(id')) = 3]_vars

\* an imported ID of four segments was rejected
WrongFormatWitness ==
    /\ op = "Import"
    /\ pc = "done"
    /\ Len(Split(id)) = 4
    /\ diags = Diag("Wrong format of resource ID", "")
    /\ ~InLog("GetSecret")

\* C8: the data source's configuration is accepted exactly when it sets
\* secret_id alone, or name together with secret_group_name
AcceptsExactly ==
    dsPc \notin {"off", "config"}
        => ((dsPc # "rejected")
                <=> SetKeys(dsConfig) \in {{"secret_id"}, {"name", "secret_group_name"}})

\* a configuration with name and secret_group_name was accepted and read
AcceptsWitness ==
    /\ dsPc = "done"
    /\ SetKeys(dsConfig) = {"name", "secret_group_name"}

\* C9: a successful Read of the data source has set credentials and source_service
ReadPopulatesCredentials ==
    (dsPc = "done" /\ dsDiags = NoDiags)
        => (dsAttrs["credentials"] # "" /\ dsAttrs["source_service"] # "")

AllArgsNamesAreAgentName ==
    (tCase = "AllArgs" /\ tPc \in {"read", "checked"})
        => /\ TestCheckResourceAttr(dataAttrs, "agent_metadata.0.name", tName)
           /\ TestCheckResourceAttr(dataAttrs, "agent_inputs.0.name", tName)

\* the resource ID as Create formats it from the region, the instance and the
\* ID that CreateSecret returned
CreatedId == attrs["region"] \o <<"/">> \o attrs["instance_id"] \o <<"/">> \o attrs["secret_id"]

\* C12: in Create the log reads CreateSecret, SetId, polls, Read, GetSecret, in
\* that order: no poll before the ID is set to <region>/<instance_id>/<secret_id>
\* with the ID CreateSecret returned, and Read and its GetSecret only after a
\* last poll that observed "active"
CreateOrder ==
    op = "Create" =>
        /\ \A i \in 1..Len(log) :
            /\ log[i] = "CreateSecret" => i = 1
            /\ log[i] = "SetId" => (i = 2 /\ log[1] = "CreateSecret")
            /\ log[i] = "Poll" => (i >= 3 /\ log[2] = "SetId" /\ \A j \in 3..i : log[j] = "Poll")
            /\ log[i] = "Read" => (i >= 4 /\ log[i - 1] = "Poll")
            /\ log[i] = "GetSecret" => (i >= 5 /\ log[i - 1] = "Read")
            /\ log[i] \in {"Read", "GetSecret"}
                   => (polls # <<>> /\ polls[Len(polls)] = "active"
                       /\ Len(polls) = Occurrences(log, "Poll"))
        /\ (InLog("SetId") /\ ~InLog("GetSecret"))
               => (id = CreatedId /\ attrs["secret_id"] \in SecretIds /\ Len(Split(id)) = 3)
        /\ ~InLog("SetId") => id = EmptyId

\* a Create that set the ID, polled twice and requested the secret in Read
CreateOrderWitness ==
    /\ op = "Create"
    /\ log = <<"CreateSecret", "SetId", "Poll", "Poll", "Read", "GetSecret">>
    /\ polls = <<"pre_activation", "active">>
    /\ id = <<"r", "/", "i", "/", "t">>

\* C13: a poll whose GetSecret returns an error ends the wait with an error
\* value ("does not exist anymore" for a 404, else the SDK's error), Create
\* returns the "Error waiting for resource" diagnostic, and nothing panics
PollErrorReturnsDiag ==
    (op = "Create" /\ polls # <<>> /\ polls[Len(polls)] = "error")
        => /\ pc = "done"
           /\ diags = Diag("Error waiting for resource",
                           IF lastErr = "404" THEN "does not exist anymore" ELSE "sdk error")

\* the creation wait has ended with an error of one of the four kinds
WaitFailed ==
    /\ op = "Create"
    /\ InLog("SetId")
    /\ \/ polls # <<>> /\ polls[Len(polls)] \in States \ (Pending \cup Target)
       \/ polls # <<>> /\ polls[Len(polls)] = "error"
       \/ (pc = "done" /\ diags = Diag("Error waiting for resource", "timeout"))

\* C14: when the wait ends with an error (destroyed, unexpected state, poll
\* error, timeout) Create returns with the ID still <region>/<instance_id>/
\* <secret_id>; when the prototype or CreateSecret fails, Create returns with
\* the ID empty and no poll issued
CreateErrorKeepsId ==
    /\ WaitFailed => (pc = "done" /\ diags # NoDiags /\ id = CreatedId /\ id # EmptyId)
    /\ (op = "Create" /\ pc = "done" /\ ~InLog("SetId"))
           => (diags # NoDiags /\ id = EmptyId /\ ~InLog("Poll"))

\* C15: a poll that observes a state other than "pre_activation", "active" and
\* "destroyed" ends the wait with the unexpected-state error, and every poll
\* after which the wait went on observed "pre_activation"
UnexpectedStateEndsWait ==
    /\ \A i \in 1..Len(polls) :
        /\ polls[i] \in States \ {"pre_activation", "active", "destroyed"}
               => /\ i = Len(polls)
                  /\ pc = "done"
                  /\ diags = Diag("Error waiting for resource", "unexpected state")
        /\ i < Len(polls) => polls[i] = "pre_activation"
    /\ (Waiting /\ polls # <<>> /\ pc \in {"wait", "sleep"})
           => polls[Len(polls)] = "pre_activation"

\* the second poll of a wait observed "suspended" and Create returned the error
UnexpectedStateWitness ==
    /\ op = "Create"
    /\ polls = <<"pre_activation", "suspended">>
    /\ pc = "done"
    /\ diags = Diag("Error waiting for resource", "unexpected state")

====
